---------------------------- MODULE Spec2Model ----------------------------
(***************************************************************************)
(* A model of the arlox tree-walking evaluator: src/src/interpret.rs (the  *)
(* value type, the per-node handlers, truthiness, the display form),       *)
(* src/src/function.rs (function values, their equality, the native table) *)
(* and the node constructors of src/src/ast.rs.                            *)
(*                                                                         *)
(* Numbers are f64 in the code.  The model keeps the IEEE-754 structure    *)
(* that the handlers can observe (signed zero, the two infinities, NaN,    *)
(* x/0, NaN # NaN) and represents a number as sign * n / d with n, d       *)
(* naturals in lowest terms: d = 0 is an infinity, n = d = 0 is NaN.       *)
(* Rounding to 53 bits is not modelled: finite results are exact.          *)
(*                                                                         *)
(* Text (token text, String payloads, output) is a sequence of bytes; a    *)
(* byte is one of the symbols of Bytes.  LEAD and CONT are the two bytes   *)
(* of a two-byte UTF-8 character, everything else is ASCII.                *)
(***************************************************************************)
EXTENDS Integers, Sequences, FiniteSets, TLC

(***************************************************************************)
(* Bounds of the model.                                                    *)
(***************************************************************************)
\* deepest nesting of expression nodes the evaluator descends into
MaxDepth == 2
\* source lines carried by tokens: 1..MaxLine
MaxLine == 2
\* largest numerator and denominator of a Number kept as an operand
MaxNum == 2
\* longest String payload kept as an operand
MaxStr == 2
\* longest token text handed to interpret_literal on its own
MaxText == 3
\* most arguments handed to a native function
MaxArgs == 2
\* distinct body subtrees / captured environments of user functions
MaxBodies == 2
\* latest reading of the system clock, in milliseconds since the epoch
MaxClock == 2
\* most nodes of the trees built for rendering
MaxNodes == 4
\* most parameters of a function declaration
MaxParams == 2

Lines == 1..MaxLine

(***************************************************************************)
(* f64                                                                     *)
(***************************************************************************)
RECURSIVE GCD(_, _)
GCD(a, b) == IF b = 0 THEN a ELSE GCD(b, a % b)

Abs(i) == IF i < 0 THEN -i ELSE i

NaN == [s |-> 1, n |-> 0, d |-> 0]

\* sign * n / d brought to the canonical representative
Norm(s, n, d) ==
    IF n = 0 /\ d = 0 THEN NaN
    ELSE IF d = 0 THEN [s |-> s, n |-> 1, d |-> 0]
    ELSE IF n = 0 THEN [s |-> s, n |-> 0, d |-> 1]
    ELSE [s |-> s, n |-> n \div GCD(n, d), d |-> d \div GCD(n, d)]

IsNaN(x) == x.n = 0 /\ x.d = 0
IsInf(x) == x.n # 0 /\ x.d = 0
IsZero(x) == x.n = 0 /\ x.d # 0

FromInt(i) == Norm(IF i < 0 THEN -1 ELSE 1, Abs(i), 1)

\* unary minus: flips the sign bit (of a zero and of an infinity too)
FNeg(x) == IF IsNaN(x) THEN x ELSE [x EXCEPT !.s = -x.s]

\* a * b: 0 * inf and anything with NaN give NaN
FMul(x, y) == Norm(x.s * y.s, x.n * y.n, x.d * y.d)

\* a / b: x/0 is an infinity, 0/0 and inf/inf are NaN
FDiv(x, y) == Norm(x.s * y.s, x.n * y.d, x.d * y.n)

\* a + b: inf + -inf is NaN; an exact zero sum is -0 only for -0 + -0
FAdd(x, y) ==
    IF IsNaN(x) \/ IsNaN(y) THEN NaN
    ELSE IF IsInf(x) THEN (IF IsInf(y) /\ x.s # y.s THEN NaN ELSE x)
    ELSE IF IsInf(y) THEN y
    ELSE LET sn == x.s * x.n * y.d + y.s * y.n * x.d
         IN  IF sn = 0
             THEN Norm(IF x.s = -1 /\ y.s = -1 THEN -1 ELSE 1, 0, 1)
             ELSE Norm(IF sn < 0 THEN -1 ELSE 1, Abs(sn), x.d * y.d)

\* a - b
FSub(x, y) == FAdd(x, FNeg(y))

\* the order of two numbers that are not NaN: -1, 0 or 1 (-0 and +0 are equal)
FOrd(x, y) ==
    IF IsInf(x) /\ IsInf(y)
    THEN (IF x.s = y.s THEN 0 ELSE IF x.s < y.s THEN -1 ELSE 1)
    ELSE LET l == x.s * x.n * y.d
             r == y.s * y.n * x.d
         IN  IF l < r THEN -1 ELSE IF l = r THEN 0 ELSE 1

Unordered(x, y) == IsNaN(x) \/ IsNaN(y)

FEq(x, y) == ~Unordered(x, y) /\ FOrd(x, y) = 0
FLt(x, y) == ~Unordered(x, y) /\ FOrd(x, y) = -1
FLe(x, y) == ~Unordered(x, y) /\ FOrd(x, y) # 1
FGt(x, y) == ~Unordered(x, y) /\ FOrd(x, y) = 1
FGe(x, y) == ~Unordered(x, y) /\ FOrd(x, y) # -1

(***************************************************************************)
(* Value and Result<Value, ()>                                             *)
(***************************************************************************)
Number(x) == [tag |-> "Number", num |-> x]
String(t) == [tag |-> "String", str |-> t]
Boolean(v) == [tag |-> "Boolean", b |-> v]
Nil == [tag |-> "Nil"]

\* a comparison that looks at the variant only
ValueEqVariantOnly(a, b) == a.tag = b.tag

\* #[derive(PartialEq)] on Value: variant by variant, f64 == on Number
ValueEq(a, b) ==
    /\ a.tag = b.tag
    /\ CASE a.tag = "Number" -> FEq(a.num, b.num)
         [] a.tag = "String" -> a.str = b.str
         [] a.tag = "Boolean" -> a.b = b.b
         [] OTHER -> TRUE

Ok(v) == [ok |-> TRUE, val |-> v]
Err == [ok |-> FALSE]

\* PartialEq of Result<Value, ()>: Ok == Ok by value, Err(()) == Err(())
ResultEq(x, y) ==
    IF x.ok /\ y.ok THEN ValueEq(x.val, y.val) ELSE x.ok = y.ok

\* what a handler call does: it returns a Result after reporting diag (the
\* calls of crate::lox_error it made, in order), or it panics
Return(r, reports) == [kind |-> "return", res |-> r, diag |-> reports]
Panic == [kind |-> "panic"]

\* one call of the diagnostic sink, crate::lox_error(line, msg); arg is the
\* text a message was formatted with (empty when it is a fixed string)
Report(line, msg, arg) == [line |-> line, msg |-> msg, arg |-> arg]


(***************************************************************************)
(* Text                                                                    *)
(***************************************************************************)
QUOTE == "\""
LEAD == "lead"
CONT == "cont"
Digits == {"0", "1"}
Bytes == {QUOTE, "a", "0", "1", ".", LEAD, CONT}

\* a Rust str is valid UTF-8: every LEAD is followed by its CONT
ValidUtf8(t) ==
    \A i \in 1..Len(t) :
        /\ t[i] = LEAD => (i < Len(t) /\ t[i + 1] = CONT)
        /\ t[i] = CONT => (i > 1 /\ t[i - 1] = LEAD)

RECURSIVE SeqsUpTo(_, _)
SeqsUpTo(S, k) ==
    IF k = 0 THEN {<<>>}
    ELSE LET shorter == SeqsUpTo(S, k - 1)
         IN  shorter \cup {Append(t, c) : t \in shorter, c \in S}

Texts(k) == {t \in SeqsUpTo(Bytes, k) : ValidUtf8(t)}

\* str::is_char_boundary(i), i a byte offset from 0
IsCharBoundary(t, i) ==
    \/ i = 0
    \/ i = Len(t)
    \/ i < Len(t) /\ t[i + 1] # CONT

\* a slice that drops the first byte only: &t[1..]
SliceFromOne(t) ==
    IF Len(t) = 0 THEN Panic
    ELSE IF ~IsCharBoundary(t, 1) THEN Panic
    ELSE Return(Ok(String(SubSeq(t, 2, Len(t)))), <<>>)

\* &t[from..to] with to = len - 1 computed in usize: len = 0 underflows (a
\* panic in a debug build, an end past the text in a release build), from > to
\* and an offset inside a character panic as well
SliceInner(t) ==
    IF Len(t) = 0 THEN Panic
    ELSE IF 1 > Len(t) - 1 THEN Panic
    ELSE IF ~IsCharBoundary(t, 1) \/ ~IsCharBoundary(t, Len(t) - 1) THEN Panic
    ELSE Return(Ok(String(SubSeq(t, 2, Len(t) - 1))), <<>>)

RECURSIVE DecVal(_)
DecVal(ds) ==
    IF ds = <<>> THEN 0
    ELSE 10 * DecVal(SubSeq(ds, 1, Len(ds) - 1))
         + (IF ds[Len(ds)] = "1" THEN 1 ELSE 0)

RECURSIVE Pow10(_)
Pow10(k) == IF k = 0 THEN 1 ELSE 10 * Pow10(k - 1)

IsDigit(c) == c \in Digits

\* str::parse::<f64>() on the bytes of the model: digits with at most one
\* '.', at least one digit ("1." and ".1" parse, "." and "" do not)
ParseF64(t) ==
    LET dots == {i \in 1..Len(t) : t[i] = "."}
        digs == SelectSeq(t, IsDigit)
    IN  IF /\ \A i \in 1..Len(t) : IsDigit(t[i]) \/ t[i] = "."
           /\ Cardinality(dots) <= 1
           /\ digs # <<>>
        THEN LET frac == IF dots = {} THEN 0
                         ELSE Len(t) - (CHOOSE i \in dots : TRUE)
             IN  Ok(Number(Norm(1, DecVal(digs), Pow10(frac))))
        ELSE Err

(***************************************************************************)
(* Tokens and literals                                                     *)
(***************************************************************************)
Token(kind, text, line) == [kind |-> kind, text |-> text, line |-> line]

LiteralKinds == {"Nil", "Number", "String", "True", "False"}
UnaryKinds == {"Bang", "Minus"}
MathKinds ==
    {"Star", "Slash", "Minus", "GreaterEqual", "LessEqual", "Less", "Greater"}
BinaryKinds == {"EqualEqual", "BangEqual", "Plus"} \cup MathKinds

\* Interpretor::interpret_literal
interpret_literal(token) ==
    CASE token.kind = "Nil" -> Return(Ok(Nil), <<>>)
      [] token.kind = "Number" ->
            IF ParseF64(token.text).ok
            THEN Return(ParseF64(token.text), <<>>)
            ELSE Return(Err, <<Report(token.line, "invalid number", token.text)>>)
      [] token.kind = "String" -> SliceInner(token.text)
      [] token.kind = "True" -> Return(Ok(Boolean(TRUE)), <<>>)
      [] token.kind = "False" -> Return(Ok(Boolean(FALSE)), <<>>)
      [] OTHER -> Return(Err, <<>>)


(***************************************************************************)
(* The handlers of Interpretor.  A handler that evaluates operands is      *)
(* written as a function of the Results its operands returned; diag holds  *)
(* the reports the handler itself makes (those of the operands are made    *)
(* while the operands are evaluated).                                      *)
(***************************************************************************)
\* a truthiness that takes the number zero for false
truthZeroFalsy(v) ==
    IF v.tag = "Number" THEN ~IsZero(v.num)
    ELSE ~(ValueEq(v, Nil) \/ ValueEq(v, Boolean(FALSE)))

\* Value::truth
truth(v) ==
    IF ValueEq(v, Nil) \/ ValueEq(v, Boolean(FALSE)) THEN FALSE ELSE TRUE

\* Interpretor::interpret_group, given what node.expr().interpret returned
interpret_group(r) == Return(r, <<>>)

\* an interpret_unary whose - accepts any operand and negates a Number only
interpret_unary_lenient(token, r) ==
    IF ~r.ok THEN Return(Err, <<>>)
    ELSE IF token.kind = "Bang"
         THEN Return(Ok(Boolean(~truth(r.val))), <<>>)
         ELSE IF r.val.tag = "Number"
              THEN Return(Ok(Number(FNeg(r.val.num))), <<>>)
              ELSE Return(r, <<>>)

\* Interpretor::interpret_unary, given what node.expr().interpret returned
interpret_unary(token, r) ==
    IF token.kind = "Bang"
    THEN IF ~r.ok THEN Return(Err, <<>>)
         ELSE Return(Ok(Boolean(~truth(r.val))), <<>>)
    ELSE IF ~r.ok THEN Return(Err, <<>>)
         ELSE IF r.val.tag = "Number"
              THEN Return(Ok(Number(FNeg(r.val.num))), <<>>)
              ELSE Return(Err, <<Report(token.line,
                                        "expected number after '-'", <<>>)>>)

\* a + that puts the right text first
plus_arms_swapped(token, a, b) ==
    CASE a.tag = "Number" /\ b.tag = "Number" ->
            Return(Ok(Number(FAdd(a.num, b.num))), <<>>)
      [] a.tag = "String" /\ b.tag = "String" ->
            Return(Ok(String(b.str \o a.str)), <<>>)
      [] OTHER ->
            Return(Err, <<Report(token.line,
                "operator '+' can only be used on number or string types",
                <<>>)>>)

\* the match of interpret_plus on two operand values
plus_arms(token, a, b) ==
    CASE a.tag = "Number" /\ b.tag = "Number" ->
            Return(Ok(Number(FAdd(a.num, b.num))), <<>>)
      [] a.tag = "String" /\ b.tag = "String" ->
            Return(Ok(String(a.str \o b.str)), <<>>)
      [] OTHER ->
            Return(Err, <<Report(token.line,
                "operator '+' can only be used on number or string types",
                <<>>)>>)

\* an interpret_math that checks the left operand only
math_arms_left_only(token, a, b) ==
    IF a.tag = "Number"
    THEN IF b.tag # "Number" THEN Return(Ok(a), <<>>)
         ELSE CASE token.kind = "Star" ->
                      Return(Ok(Number(FMul(a.num, b.num))), <<>>)
                [] token.kind = "Slash" ->
                      Return(Ok(Number(FDiv(a.num, b.num))), <<>>)
                [] token.kind = "Minus" ->
                      Return(Ok(Number(FSub(a.num, b.num))), <<>>)
                [] token.kind = "GreaterEqual" ->
                      Return(Ok(Boolean(FGe(a.num, b.num))), <<>>)
                [] token.kind = "LessEqual" ->
                      Return(Ok(Boolean(FLe(a.num, b.num))), <<>>)
                [] token.kind = "Less" ->
                      Return(Ok(Boolean(FLt(a.num, b.num))), <<>>)
                [] token.kind = "Greater" ->
                      Return(Ok(Boolean(FGt(a.num, b.num))), <<>>)
                [] OTHER -> Return(Err, <<>>)
    ELSE Return(Err, <<Report(token.line,
                "operator '+' can only be used on number or string types",
                <<>>)>>)

\* the match of interpret_math on two operand values
math_arms(token, a, b) ==
    IF a.tag = "Number" /\ b.tag = "Number"
    THEN CASE token.kind = "Star" ->
                 Return(Ok(Number(FMul(a.num, b.num))), <<>>)
           [] token.kind = "Slash" ->
                 Return(Ok(Number(FDiv(a.num, b.num))), <<>>)
           [] token.kind = "Minus" ->
                 Return(Ok(Number(FSub(a.num, b.num))), <<>>)
           [] token.kind = "GreaterEqual" ->
                 Return(Ok(Boolean(FGe(a.num, b.num))), <<>>)
           [] token.kind = "LessEqual" ->
                 Return(Ok(Boolean(FLe(a.num, b.num))), <<>>)
           [] token.kind = "Less" ->
                 Return(Ok(Boolean(FLt(a.num, b.num))), <<>>)
           [] token.kind = "Greater" ->
                 Return(Ok(Boolean(FGt(a.num, b.num))), <<>>)
           [] OTHER -> Return(Err, <<>>)
    ELSE Return(Err, <<Report(token.line,
                "operator '+' can only be used on number or string types",
                <<>>)>>)

\* Interpretor::interpret_plus: `?` on the left operand, then on the right
interpret_plus(token, l, r) ==
    IF ~l.ok THEN Return(Err, <<>>)
    ELSE IF ~r.ok THEN Return(Err, <<>>)
    ELSE plus_arms(token, l.val, r.val)

\* Interpretor::interpret_math: `?` on the left operand, then on the right
interpret_math(token, l, r) ==
    IF ~l.ok THEN Return(Err, <<>>)
    ELSE IF ~r.ok THEN Return(Err, <<>>)
    ELSE math_arms(token, l.val, r.val)

\* Interpretor::interpret_binary: == and != compare the two Results
interpret_binary(token, l, r) ==
    CASE token.kind = "EqualEqual" ->
            Return(Ok(Boolean(ResultEq(l, r))), <<>>)
      [] token.kind = "BangEqual" ->
            Return(Ok(Boolean(~ResultEq(l, r))), <<>>)
      [] token.kind = "Plus" -> interpret_plus(token, l, r)
      [] OTHER -> interpret_math(token, l, r)

\* a handler that evaluates node.rexpr() whatever the left operand returned
EvaluatesRightAlways(token, l) == TRUE

\* whether interpret_binary goes on to evaluate node.rexpr() once the left
\* operand returned l: always for == and !=, only after Ok for the others
EvaluatesRight(token, l) ==
    token.kind \in {"EqualEqual", "BangEqual"} \/ l.ok


(***************************************************************************)
(* State                                                                   *)
(***************************************************************************)
VARIABLES
    \* interpret(ast): the evaluation of one tree
    stack,    \* the handlers in progress, outermost first
    ret,      \* what the handler that returned last returned
    sink,     \* the calls of crate::lox_error so far
    result,   \* what interpret(ast) returned
    pc,       \* "eval" | "returned" | "done" | "panicked"
    \* one handler applied to operand values
    opa, opb, opnode, optok, opout,
    \* interpret_literal applied to one token
    littok, litout,
    \* the three Function values created last
    fnx, fny, fnz,
    \* the native table and one call of a native function
    natives, ncall, nret, nout,
    \* the subtrees built so far (oldest first) and one format!("{}", node)
    asts, fmtnode, fmtout

interpVars == <<stack, ret, sink, result, pc>>
opVars == <<opa, opb, opnode, optok, opout>>
litVars == <<littok, litout>>
funVars == <<fnx, fny, fnz>>
natVars == <<natives, ncall, nret, nout>>
astVars == <<asts, fmtnode, fmtout>>
vars == <<interpVars, opVars, litVars, funVars, natVars, astVars>>

Pending == [pending |-> TRUE]
Some(v) == [some |-> TRUE, val |-> v]
None == [some |-> FALSE]

InterpIdle ==
    /\ stack = <<>>
    /\ ret = Pending
    /\ sink = <<>>
    /\ result = Pending
    /\ pc = "idle"

OpIdle ==
    /\ opa = Nil
    /\ opb = Nil
    /\ opnode = "none"
    /\ optok = Pending
    /\ opout = Pending

LitIdle ==
    /\ littok = Pending
    /\ litout = Pending

FunIdle ==
    /\ fnx = Pending
    /\ fny = Pending
    /\ fnz = Pending

NatIdle ==
    /\ natives = <<>>
    /\ ncall = Pending
    /\ nret = Pending
    /\ nout = <<>>

AstIdle ==
    /\ asts = <<>>
    /\ fmtnode = Pending
    /\ fmtout = Pending

(***************************************************************************)
(* The trees handed to interpret(ast).  The tree is an input: its nodes    *)
(* are chosen as the evaluator reaches them.  The leaves are the literal   *)
(* tokens a scanner produces (a String token's text carries its quotes),   *)
(* among them a Number token whose text does not parse.                    *)
(***************************************************************************)
NumberTexts == {<<"0">>, <<"1">>, <<"1", ".", "1", ".", "1">>}
StringTexts == {<<QUOTE, QUOTE>>, <<QUOTE, "a", QUOTE>>}

\* the text of a keyword token is never read by the evaluator
ScannedLiterals ==
    {Token(k, <<"a">>, ln) : k \in {"Nil", "True", "False"}, ln \in Lines}
    \cup {Token("Number", t, ln) : t \in NumberTexts, ln \in Lines}
    \cup {Token("String", t, ln) : t \in StringTexts, ln \in Lines}

UnaryTokens == {Token(k, <<"a">>, ln) : k \in UnaryKinds, ln \in Lines}
BinaryTokens == {Token(k, <<"a">>, ln) : k \in BinaryKinds, ln \in Lines}

\* GroupExpr::create / UnaryExpr::create / BinaryExpr::create, as the
\* handler in progress for that node
GroupExpr == [node |-> "Group"]
UnaryExpr(token) == [node |-> "Unary", token |-> token]
BinaryExpr(token, lexpr) == [node |-> "Binary", token |-> token, left |-> lexpr]

Top == stack[Len(stack)]
Pop == SubSeq(stack, 1, Len(stack) - 1)

\* a compound node has an operand below it
RoomForCompound == Len(stack) + 2 <= MaxDepth

\* pub fn interpret(ast): the call
InterpInit ==
    /\ stack = <<>>
    /\ ret = Pending
    /\ sink = <<>>
    /\ result = Pending
    /\ pc = "eval"

\* LiteralExpr::interpret -> interpret_literal
EvalLiteral ==
    /\ pc = "eval"
    /\ \E token \in ScannedLiterals :
         LET out == interpret_literal(token)
         IN  IF out.kind = "panic"
             THEN /\ pc' = "panicked"
                  /\ UNCHANGED <<ret, sink>>
             ELSE /\ pc' = "returned"
                  /\ ret' = out.res
                  /\ sink' = sink \o out.diag
    /\ UNCHANGED <<stack, result, opVars, litVars, funVars, natVars, astVars>>

\* GroupExpr::interpret -> interpret_group: evaluate node.expr()
EvalGroup ==
    /\ pc = "eval"
    /\ RoomForCompound
    /\ stack' = Append(stack, GroupExpr)
    /\ UNCHANGED <<ret, sink, result, pc, opVars, litVars, funVars, natVars, astVars>>

\* UnaryExpr::interpret -> interpret_unary: evaluate node.expr()
EvalUnary ==
    /\ pc = "eval"
    /\ RoomForCompound
    /\ \E token \in UnaryTokens : stack' = Append(stack, UnaryExpr(token))
    /\ UNCHANGED <<ret, sink, result, pc, opVars, litVars, funVars, natVars, astVars>>

\* BinaryExpr::interpret -> interpret_binary: evaluate node.lexpr()
EvalBinary ==
    /\ pc = "eval"
    /\ RoomForCompound
    /\ \E token \in BinaryTokens :
         stack' = Append(stack, BinaryExpr(token, Pending))
    /\ UNCHANGED <<ret, sink, result, pc, opVars, litVars, funVars, natVars, astVars>>

\* the handler on top of the stack returns out
HandlerReturns(out) ==
    /\ stack' = Pop
    /\ ret' = out.res
    /\ sink' = sink \o out.diag
    /\ pc' = "returned"

\* interpret_group returns what its operand returned
GroupReturn ==
    /\ pc = "returned"
    /\ stack # <<>>
    /\ Top.node = "Group"
    /\ HandlerReturns(interpret_group(ret))
    /\ UNCHANGED <<result, opVars, litVars, funVars, natVars, astVars>>

\* interpret_unary after its operand returned
UnaryReturn ==
    /\ pc = "returned"
    /\ stack # <<>>
    /\ Top.node = "Unary"
    /\ HandlerReturns(interpret_unary(Top.token, ret))
    /\ UNCHANGED <<result, opVars, litVars, funVars, natVars, astVars>>

\* interpret_binary after node.lexpr() returned: `?` in interpret_plus and
\* interpret_math returns the failure at once, otherwise node.rexpr() is next
BinaryLeftReturn ==
    /\ pc = "returned"
    /\ stack # <<>>
    /\ Top.node = "Binary"
    /\ Top.left = Pending
    /\ IF EvaluatesRight(Top.token, ret)
       THEN /\ stack' = [stack EXCEPT ![Len(stack)].left = ret]
            /\ pc' = "eval"
            /\ UNCHANGED <<ret, sink>>
       ELSE HandlerReturns(interpret_binary(Top.token, ret, Err))
    /\ UNCHANGED <<result, opVars, litVars, funVars, natVars, astVars>>

\* interpret_binary after node.rexpr() returned
BinaryRightReturn ==
    /\ pc = "returned"
    /\ stack # <<>>
    /\ Top.node = "Binary"
    /\ Top.left # Pending
    /\ HandlerReturns(interpret_binary(Top.token, Top.left, ret))
    /\ UNCHANGED <<result, opVars, litVars, funVars, natVars, astVars>>

\* pub fn interpret(ast): root().interpret(..).ok()
InterpretReturns ==
    /\ pc = "returned"
    /\ stack = <<>>
    /\ result' = IF ret.ok THEN Some(ret.val) ELSE None
    /\ pc' = "done"
    /\ UNCHANGED <<stack, ret, sink, opVars, litVars, funVars, natVars, astVars>>

Init == InterpInit /\ OpIdle /\ LitIdle /\ FunIdle /\ NatIdle /\ AstIdle

Next ==
    \/ EvalLiteral
    \/ EvalGroup
    \/ EvalUnary
    \/ EvalBinary
    \/ GroupReturn
    \/ UnaryReturn
    \/ BinaryLeftReturn
    \/ BinaryRightReturn
    \/ InterpretReturns

Spec == Init /\ [][Next]_vars


(***************************************************************************)
(* One handler applied to operand values.  The operands start as the       *)
(* values of the literals; a value a handler returned is fed back as an    *)
(* operand, which is the evaluation of a deeper tree: 0/0 makes NaN, 1/0   *)
(* an infinity, -0 a negative zero.                                        *)
(***************************************************************************)
OperandLiterals ==
    ScannedLiterals \cup {Token("String", <<QUOTE, "1", QUOTE>>, 1)}

LiteralValues ==
    {interpret_literal(t).res.val :
        t \in {u \in OperandLiterals : interpret_literal(u).res.ok}}

\* the operands kept: Numbers and Strings of bounded size
InBounds(v) ==
    CASE v.tag = "Number" -> v.num.n <= MaxNum /\ v.num.d <= MaxNum
      [] v.tag = "String" -> Len(v.str) <= MaxStr
      [] OTHER -> TRUE

OpInit ==
    /\ opa \in LiteralValues
    /\ opb \in LiteralValues
    /\ opnode = "none"
    /\ optok = Pending
    /\ opout = Pending

\* interpret_group on an operand that evaluated to opa
OpGroup ==
    /\ opnode' = "Group"
    /\ optok' = Pending
    /\ opout' = interpret_group(Ok(opa))
    /\ UNCHANGED <<opa, opb, interpVars, litVars, funVars, natVars, astVars>>

\* interpret_unary on an operand that evaluated to opa
OpUnary ==
    /\ \E token \in UnaryTokens :
         /\ optok' = token
         /\ opout' = interpret_unary(token, Ok(opa))
    /\ opnode' = "Unary"
    /\ UNCHANGED <<opa, opb, interpVars, litVars, funVars, natVars, astVars>>

\* interpret_binary on operands that evaluated to opa and opb
OpBinary ==
    /\ \E token \in BinaryTokens :
         /\ optok' = token
         /\ opout' = interpret_binary(token, Ok(opa), Ok(opb))
    /\ opnode' = "Binary"
    /\ UNCHANGED <<opa, opb, interpVars, litVars, funVars, natVars, astVars>>

Feedable == opout # Pending /\ opout.res.ok /\ InBounds(opout.res.val)

\* the value returned becomes the left operand of an enclosing node
FeedLeft ==
    /\ Feedable
    /\ opa' = opout.res.val
    /\ opnode' = "none"
    /\ optok' = Pending
    /\ opout' = Pending
    /\ UNCHANGED <<opb, interpVars, litVars, funVars, natVars, astVars>>

\* the value returned becomes the right operand of an enclosing node
FeedRight ==
    /\ Feedable
    /\ opb' = opout.res.val
    /\ opnode' = "none"
    /\ optok' = Pending
    /\ opout' = Pending
    /\ UNCHANGED <<opa, interpVars, litVars, funVars, natVars, astVars>>

NextOps == OpGroup \/ OpUnary \/ OpBinary \/ FeedLeft \/ FeedRight

InitOps == InterpIdle /\ OpInit /\ LitIdle /\ FunIdle /\ NatIdle /\ AstIdle

SpecOps == InitOps /\ [][NextOps]_vars

(***************************************************************************)
(* interpret_literal applied to one token of any literal kind and any      *)
(* text.                                                                   *)
(***************************************************************************)
AnyLiterals ==
    {Token(k, t, ln) : k \in LiteralKinds, t \in Texts(MaxText), ln \in Lines}

LiteralCall ==
    /\ littok = Pending
    /\ \E token \in AnyLiterals :
         /\ littok' = token
         /\ litout' = interpret_literal(token)
    /\ UNCHANGED <<interpVars, opVars, funVars, natVars, astVars>>

NextLiteral == LiteralCall

InitLiteral == InterpIdle /\ OpIdle /\ LitIdle /\ FunIdle /\ NatIdle /\ AstIdle

SpecLiteral == InitLiteral /\ [][NextLiteral]_vars


(***************************************************************************)
(* Function values (function.rs)                                           *)
(***************************************************************************)
\* an Arc<dyn AstNode>: the address of the allocation and the node in it;
\* every body of the model is a block of the same structure
AstNodeRef(i) == [addr |-> i, node |-> "Block"]

\* Arc::ptr_eq
ArcPtrEq(x, y) == x.addr = y.addr

NativeImpl(ptr) == [impl |-> "NativeImpl", ptr |-> ptr]
LoxImpl(ref) == [impl |-> "LoxImpl", node |-> ref]

\* impl PartialEq for Implementation
ImplementationEq(a, b) ==
    CASE a.impl = "NativeImpl" /\ b.impl = "NativeImpl" -> a.ptr = b.ptr
      [] a.impl = "LoxImpl" /\ b.impl = "LoxImpl" -> ArcPtrEq(a.node, b.node)
      [] OTHER -> FALSE

\* Function::create
Function_create(code, params, closure) ==
    [params |-> params, code |-> code, closure |-> closure]

\* an equality over every field, as #[derive(PartialEq)] would give
FunctionEqAllFields(f, g) ==
    /\ ImplementationEq(f.code, g.code)
    /\ f.params = g.params
    /\ f.closure = g.closure

\* impl PartialEq for Function
FunctionEq(f, g) == ImplementationEq(f.code, g.code)

\* pub fn all_natives
all_natives ==
    << [name |-> "log",
        fn |-> Function_create(NativeImpl("log"), <<"">>, None)],
       [name |-> "clock",
        fn |-> Function_create(NativeImpl("clock"), <<>>, None)] >>

Codes ==
    {NativeImpl("log"), NativeImpl("clock")}
    \cup {LoxImpl(AstNodeRef(i)) : i \in 1..MaxBodies}
ParamLists == {<<>>, <<"">>, <<"x">>}
Closures == {None} \cup {Some(e) : e \in 1..MaxBodies}

FunInit ==
    /\ fnx = all_natives[1].fn
    /\ fny = all_natives[1].fn
    /\ fnz = all_natives[2].fn

\* Function::create; the three values created last are kept
FunctionCreate ==
    /\ \E code \in Codes, params \in ParamLists, closure \in Closures :
         fnx' = Function_create(code, params, closure)
    /\ fny' = fnx
    /\ fnz' = fny
    /\ UNCHANGED <<interpVars, opVars, litVars, natVars, astVars>>

NextFunction == FunctionCreate

InitFunction == InterpIdle /\ OpIdle /\ LitIdle /\ FunInit /\ NatIdle /\ AstIdle

SpecFunction == InitFunction /\ [][NextFunction]_vars

(***************************************************************************)
(* The native functions (function.rs) and the display form of a value      *)
(***************************************************************************)
DigitChars == <<"0", "1", "2", "3", "4", "5", "6", "7", "8", "9">>

RECURSIVE DecDigits(_)
DecDigits(k) ==
    IF k < 10 THEN <<DigitChars[k + 1]>>
    ELSE Append(DecDigits(k \div 10), DigitChars[(k % 10) + 1])

\* the digits after the point of r / d, r < d, for a terminating decimal
RECURSIVE FracDigits(_, _)
FracDigits(r, d) ==
    IF r = 0 THEN <<>>
    ELSE <<DigitChars[((10 * r) \div d) + 1]>> \o FracDigits((10 * r) % d, d)

\* f64::to_string for NaN, the infinities, the zeros, the integers and the
\* terminating decimals
FmtF64(x) ==
    IF IsNaN(x) THEN <<"N", "a", "N">>
    ELSE (IF x.s = -1 THEN <<"-">> ELSE <<>>) \o
         (IF IsInf(x) THEN <<"i", "n", "f">>
          ELSE DecDigits(x.n \div x.d) \o
               (IF x.n % x.d = 0 THEN <<>>
                ELSE <<".">> \o FracDigits(x.n % x.d, x.d)))

\* impl Display for Value
Display(v) ==
    CASE v.tag = "Number" -> FmtF64(v.num)
      [] v.tag = "String" -> v.str
      [] v.tag = "Nil" -> <<"N", "I", "L">>
      [] v.tag = "Boolean" ->
            IF v.b THEN <<"t", "r", "u", "e">> ELSE <<"f", "a", "l", "s", "e">>

\* what a native call does: its Result and what it wrote to standard output
NativeReturn(r, out) == [res |-> r, out |-> out]

\* a log that writes the space before each argument instead of after it
RECURSIVE logSpaceBefore(_)
logSpaceBefore(args) ==
    IF args = <<>> THEN NativeReturn(Ok(Nil), <<"\n">>)
    ELSE NativeReturn(Ok(Nil),
             <<" ">> \o Display(Head(args)) \o logSpaceBefore(Tail(args)).out)

\* the loop of log: print!("{} ", a) for each argument
RECURSIVE logArgs(_)
logArgs(args) ==
    IF args = <<>> THEN <<>>
    ELSE Display(Head(args)) \o <<" ">> \o logArgs(Tail(args))

\* fn log
log(args) == NativeReturn(Ok(Nil), logArgs(args) \o <<"\n">>)

\* fn clock; now is SystemTime::now() in milliseconds since the epoch
clock(args, now) == NativeReturn(Ok(Number(FromInt(now))), <<>>)

\* the values handed to a native function
ArgValues ==
    LiteralValues
    \cup {Number(NaN), Number(Norm(-1, 1, 0)), Number(FromInt(-10))}
ArgLists == SeqsUpTo(ArgValues, MaxArgs)

\* the table is installed once at startup
NatInit ==
    /\ natives = all_natives
    /\ ncall = Pending
    /\ nret = Pending
    /\ nout = <<>>

HasNative(ptr) == \E i \in DOMAIN natives : natives[i].fn.code = NativeImpl(ptr)

\* a call of the native log
CallLog ==
    /\ ncall = Pending
    /\ HasNative("log")
    /\ \E args \in ArgLists :
         /\ ncall' = [ptr |-> "log", args |-> args]
         /\ nret' = log(args).res
         /\ nout' = log(args).out
    /\ UNCHANGED <<natives, interpVars, opVars, litVars, funVars, astVars>>

\* a call of the native clock
CallClock ==
    /\ ncall = Pending
    /\ HasNative("clock")
    /\ \E args \in ArgLists, now \in 0..MaxClock :
         /\ ncall' = [ptr |-> "clock", args |-> args]
         /\ nret' = clock(args, now).res
         /\ nout' = clock(args, now).out
    /\ UNCHANGED <<natives, interpVars, opVars, litVars, funVars, astVars>>

\* the caller takes the Result; the table is ready for the next call
CallReturns ==
    /\ ncall # Pending
    /\ ncall' = Pending
    /\ nret' = Pending
    /\ nout' = <<>>
    /\ UNCHANGED <<natives, interpVars, opVars, litVars, funVars, astVars>>

NextNative == CallLog \/ CallClock \/ CallReturns

InitNative == InterpIdle /\ OpIdle /\ LitIdle /\ FunIdle /\ NatInit /\ AstIdle

SpecNative == InitNative /\ [][NextNative]_vars

(***************************************************************************)
(* impl Display for the nodes of the program tree (src/src/ast.rs).  A     *)
(* node is a record of its fields, node naming its variant; a child is the *)
(* record of the child node, an Option is None or Some(child), a Vec is a  *)
(* sequence.  The rendering is a sequence of characters.                   *)
(***************************************************************************)
\* "{}" of a Token: the text the scanner cut out of the source
TokenDisplay(token) == token.text

\* for a in params { write!(f, "{} ", a.text()) }
RECURSIVE FmtParams(_)
FmtParams(params) ==
    IF params = <<>> THEN <<>>
    ELSE Head(params).text \o <<" ">> \o FmtParams(Tail(params))

\* a declaration whose parameters are separated by single spaces
FunDeclDisplayJoined(name, params, block) ==
    LET shown == FmtParams(params)
    IN  <<"(">> \o TokenDisplay(name) \o <<" ">>
        \o (IF shown = <<>> THEN <<>> ELSE SubSeq(shown, 1, Len(shown) - 1))
        \o <<")">> \o block

\* impl Display for FunDecl; block is what "{}" of self.block() writes
FunDeclDisplay(name, params, block) ==
    <<"(">> \o TokenDisplay(name) \o <<" ">> \o FmtParams(params)
    \o <<")">> \o block

\* impl Display for FunDef
FunDefDisplay(params, block) ==
    <<"(", "[", "f", "u", "n", "]", " ">> \o FmtParams(params)
    \o <<")">> \o block

RECURSIVE Fmt(_), FmtDecs(_), FmtArgs(_)
\* for s in decs { write!(f, "{}\n", s) }
FmtDecs(decs) ==
    IF decs = <<>> THEN <<>>
    ELSE Fmt(Head(decs)) \o <<"\n">> \o FmtDecs(Tail(decs))

\* for a in args { write!(f, " {},", a) }
FmtArgs(args) ==
    IF args = <<>> THEN <<>>
    ELSE <<" ">> \o Fmt(Head(args)) \o <<",">> \o FmtArgs(Tail(args))

\* what format!("{}", node) gives: fmt of the node's variant
Fmt(n) ==
    CASE n.node = "BinaryExpr" ->
            <<"(">> \o TokenDisplay(n.token) \o <<" ">> \o Fmt(n.lexpr)
            \o <<" ">> \o Fmt(n.rexpr) \o <<")">>
      [] n.node = "UnaryExpr" ->
            <<"(">> \o TokenDisplay(n.token) \o <<" ">> \o Fmt(n.expr)
            \o <<")">>
      [] n.node = "GroupExpr" ->
            <<"(", "g", "r", "o", "u", "p", " ">> \o Fmt(n.expr) \o <<")">>
      [] n.node = "LiteralExpr" -> TokenDisplay(n.token)
      [] n.node = "ExprStmt" -> Fmt(n.expr) \o <<";">>
      [] n.node = "PrintStmt" -> Fmt(n.expr) \o <<";">>
      [] n.node = "AssignExpr" ->
            <<"(">> \o TokenDisplay(n.variable) \o <<"=">> \o Fmt(n.expr)
            \o <<")">>
      [] n.node = "VarDecl" ->
            IF n.expr.some
            THEN <<"(", "v", "a", "r", " ">> \o TokenDisplay(n.variable)
                 \o <<"=">> \o Fmt(n.expr.val) \o <<")", ";">>
            ELSE <<"(", "v", "a", "r", " ">> \o TokenDisplay(n.variable)
                 \o <<")", ";">>
      [] n.node = "Block" -> <<"{">> \o FmtDecs(n.decs) \o <<"}">>
      [] n.node = "IfStmt" ->
            IF n.elstmt.some
            THEN <<"(", "i", "f", " ">> \o Fmt(n.expr) \o <<" ", "=", ">", " ">>
                 \o Fmt(n.stmt) \o <<" ", "|", " ">> \o Fmt(n.elstmt.val)
                 \o <<")", "\n">>
            ELSE <<"(", "i", "f", " ">> \o Fmt(n.expr) \o <<" ", "=", ">", " ">>
                 \o Fmt(n.stmt) \o <<")", "\n">>
      [] n.node = "WhileStmt" ->
            <<"(", "w", "h", "i", "l", "e", " ">> \o Fmt(n.expr)
            \o <<" ", "=", ">", " ">> \o Fmt(n.stmt) \o <<")", "\n">>
      [] n.node = "BreakStmt" -> <<"b", "r", "e", "a", "k">>
      [] n.node = "ReturnStmt" ->
            IF n.expr.some
            THEN <<"(", "r", "e", "t", "u", "r", "n", " ">> \o Fmt(n.expr.val)
                 \o <<")">>
            ELSE <<"r", "e", "t", "u", "r", "n">>
      [] n.node = "FunCall" ->
            <<"(">> \o Fmt(n.callee) \o FmtArgs(n.args) \o <<")">>
      [] n.node = "FunDecl" -> FunDeclDisplay(n.name, n.params, Fmt(n.block))
      [] n.node = "FunDef" -> FunDefDisplay(n.params, Fmt(n.block))
      [] n.node = "Program" -> FmtDecs(n.decs)

\* the nodes of a tree, counted
RECURSIVE NodeCount(_), NodeCountAll(_)
NodeCountAll(ns) ==
    IF ns = <<>> THEN 0 ELSE NodeCount(Head(ns)) + NodeCountAll(Tail(ns))

NodeCount(n) ==
    1 + CASE n.node \in {"BinaryExpr"} ->
                NodeCount(n.lexpr) + NodeCount(n.rexpr)
          [] n.node \in {"UnaryExpr", "GroupExpr", "ExprStmt", "PrintStmt",
                         "AssignExpr"} -> NodeCount(n.expr)
          [] n.node \in {"VarDecl", "ReturnStmt"} ->
                IF n.expr.some THEN NodeCount(n.expr.val) ELSE 0
          [] n.node \in {"Block", "Program"} -> NodeCountAll(n.decs)
          [] n.node = "IfStmt" ->
                NodeCount(n.expr) + NodeCount(n.stmt)
                + (IF n.elstmt.some THEN NodeCount(n.elstmt.val) ELSE 0)
          [] n.node = "WhileStmt" -> NodeCount(n.expr) + NodeCount(n.stmt)
          [] n.node = "FunCall" -> NodeCount(n.callee) + NodeCountAll(n.args)
          [] n.node \in {"FunDecl", "FunDef"} -> NodeCount(n.block)
          [] OTHER -> 0

(***************************************************************************)
(* SpecDisplay: trees are built bottom-up by the create functions, the way *)
(* a parser calls them: the operands of a node are the subtrees built      *)
(* last.  A finished tree is rendered by format!("{}", node).              *)
(***************************************************************************)
\* the kinds the grammar allows where an expression / a statement stands
ExprNodes ==
    {"BinaryExpr", "UnaryExpr", "GroupExpr", "LiteralExpr", "AssignExpr",
     "FunCall", "FunDef"}
StmtNodes ==
    {"ExprStmt", "PrintStmt", "VarDecl", "Block", "IfStmt", "WhileStmt",
     "BreakStmt", "ReturnStmt", "FunDecl"}

IsExpr(n) == n.node \in ExprNodes
IsStmt(n) == n.node \in StmtNodes

LiteralTokens == {Token("Number", <<"1">>, 1), Token("Identifier", <<"a">>, 1)}
NameTokens == {Token("Identifier", <<"f">>, 1)}
ParamTokens == {Token("Identifier", <<"a">>, 1), Token("Identifier", <<"b">>, 1)}
ParamVecs == SeqsUpTo(ParamTokens, MaxParams)

\* the subtrees built last, oldest first
Last(k) == SubSeq(asts, Len(asts) - k + 1, Len(asts))
\* the k subtrees built last become the children of node
Reduce(k, node) ==
    /\ fmtnode = Pending
    /\ NodeCountAll(asts) + 1 <= MaxNodes
    /\ asts' = Append(SubSeq(asts, 1, Len(asts) - k), node)
    /\ UNCHANGED <<fmtnode, fmtout, interpVars, opVars, litVars, funVars,
                   natVars>>

AllExpr(ns) == \A i \in DOMAIN ns : IsExpr(ns[i])
AllStmt(ns) == \A i \in DOMAIN ns : IsStmt(ns[i])

\* LiteralExpr::create(token)
CreateLiteralExpr ==
    \E t \in LiteralTokens : Reduce(0, [node |-> "LiteralExpr", token |-> t])

\* BreakStmt::create(token)
CreateBreakStmt ==
    Reduce(0, [node |-> "BreakStmt", token |-> Token("Break", <<"break">>, 1)])

\* GroupExpr::create(expr)
CreateGroupExpr ==
    /\ Len(asts) >= 1 /\ IsExpr(Last(1)[1])
    /\ Reduce(1, [node |-> "GroupExpr", expr |-> Last(1)[1]])

\* UnaryExpr::create(token, expr)
CreateUnaryExpr ==
    /\ Len(asts) >= 1 /\ IsExpr(Last(1)[1])
    /\ Reduce(1, [node |-> "UnaryExpr", token |-> Token("Minus", <<"-">>, 1),
                  expr |-> Last(1)[1]])

\* BinaryExpr::create(token, lexpr, rexpr)
CreateBinaryExpr ==
    /\ Len(asts) >= 2 /\ AllExpr(Last(2))
    /\ Reduce(2, [node |-> "BinaryExpr", token |-> Token("Plus", <<"+">>, 1),
                  lexpr |-> Last(2)[1], rexpr |-> Last(2)[2]])

\* AssignExpr::create(variable, expr)
CreateAssignExpr ==
    /\ Len(asts) >= 1 /\ IsExpr(Last(1)[1])
    /\ \E t \in NameTokens :
           Reduce(1, [node |-> "AssignExpr", variable |-> t,
                      expr |-> Last(1)[1]])

\* ExprStmt::create(expr)
CreateExprStmt ==
    /\ Len(asts) >= 1 /\ IsExpr(Last(1)[1])
    /\ Reduce(1, [node |-> "ExprStmt", expr |-> Last(1)[1]])

\* PrintStmt::create(expr)
CreatePrintStmt ==
    /\ Len(asts) >= 1 /\ IsExpr(Last(1)[1])
    /\ Reduce(1, [node |-> "PrintStmt", expr |-> Last(1)[1]])

\* VarDecl::create(variable, expr)
CreateVarDecl ==
    \E t \in NameTokens :
        \/ Reduce(0, [node |-> "VarDecl", variable |-> t, expr |-> None])
        \/ /\ Len(asts) >= 1 /\ IsExpr(Last(1)[1])
           /\ Reduce(1, [node |-> "VarDecl", variable |-> t,
                         expr |-> Some(Last(1)[1])])

\* ReturnStmt::create(token, expr)
CreateReturnStmt ==
    LET t == Token("Return", <<"return">>, 1)
    IN  \/ Reduce(0, [node |-> "ReturnStmt", token |-> t, expr |-> None])
        \/ /\ Len(asts) >= 1 /\ IsExpr(Last(1)[1])
           /\ Reduce(1, [node |-> "ReturnStmt", token |-> t,
                         expr |-> Some(Last(1)[1])])

\* Block::create(decs)
CreateBlock ==
    \E k \in 0..Len(asts) :
        /\ AllStmt(Last(k))
        /\ Reduce(k, [node |-> "Block", decs |-> Last(k)])

\* Program::create(stmts)
CreateProgram ==
    \E k \in 0..Len(asts) :
        /\ AllStmt(Last(k))
        /\ Reduce(k, [node |-> "Program", decs |-> Last(k)])

\* IfStmt::create(expr, stmt, elstmt)
CreateIfStmt ==
    \/ /\ Len(asts) >= 2 /\ IsExpr(Last(2)[1]) /\ IsStmt(Last(2)[2])
       /\ Reduce(2, [node |-> "IfStmt", expr |-> Last(2)[1],
                     stmt |-> Last(2)[2], elstmt |-> None])
    \/ /\ Len(asts) >= 3 /\ IsExpr(Last(3)[1]) /\ AllStmt(Last(2))
       /\ Reduce(3, [node |-> "IfStmt", expr |-> Last(3)[1],
                     stmt |-> Last(3)[2], elstmt |-> Some(Last(3)[3])])

\* WhileStmt::create(expr, stmt)
CreateWhileStmt ==
    /\ Len(asts) >= 2 /\ IsExpr(Last(2)[1]) /\ IsStmt(Last(2)[2])
    /\ Reduce(2, [node |-> "WhileStmt", expr |-> Last(2)[1],
                  stmt |-> Last(2)[2]])

\* FunCall::create(callee, args, line)
CreateFunCall ==
    \E k \in 1..Len(asts) :
        /\ AllExpr(Last(k))
        /\ Reduce(k, [node |-> "FunCall", line |-> 1, callee |-> Last(k)[1],
                      args |-> Tail(Last(k))])

\* FunDecl::create(name, args, block)
CreateFunDecl ==
    /\ Len(asts) >= 1 /\ Last(1)[1].node = "Block"
    /\ \E t \in NameTokens, ps \in ParamVecs :
           Reduce(1, [node |-> "FunDecl", name |-> t, params |-> ps,
                      block |-> Last(1)[1]])

\* FunDef::create(args, block)
CreateFunDef ==
    /\ Len(asts) >= 1 /\ Last(1)[1].node = "Block"
    /\ \E ps \in ParamVecs :
           Reduce(1, [node |-> "FunDef", params |-> ps, block |-> Last(1)[1]])

\* format!("{}", node) of the tree just finished
Format ==
    /\ fmtnode = Pending
    /\ Len(asts) = 1
    /\ fmtnode' = asts[1]
    /\ fmtout' = Fmt(asts[1])
    /\ asts' = <<>>
    /\ UNCHANGED <<interpVars, opVars, litVars, funVars, natVars>>

NextDisplay ==
    \/ CreateLiteralExpr \/ CreateBreakStmt \/ CreateGroupExpr
    \/ CreateUnaryExpr \/ CreateBinaryExpr \/ CreateAssignExpr
    \/ CreateExprStmt \/ CreatePrintStmt \/ CreateVarDecl
    \/ CreateReturnStmt \/ CreateBlock \/ CreateProgram \/ CreateIfStmt
    \/ CreateWhileStmt \/ CreateFunCall \/ CreateFunDecl \/ CreateFunDef
    \/ Format

InitDisplay == InterpIdle /\ OpIdle /\ LitIdle /\ FunIdle /\ NatIdle /\ AstIdle

SpecDisplay == InitDisplay /\ [][NextDisplay]_vars

(***************************************************************************)
(* Claims                                                                  *)
(***************************************************************************)
\* the two messages the handlers report for an operand of the wrong type
TypeErrorMessages ==
    {"expected number after '-'",
     "operator '+' can only be used on number or string types"}

\* a failure with exactly one type error reported at the given line
TypeErrorAt(out, line) ==
    /\ out.kind = "return"
    /\ ~out.res.ok
    /\ Len(out.diag) = 1
    /\ out.diag[1].line = line
    /\ out.diag[1].msg \in TypeErrorMessages

\* the handler on top of the stack returns in this step
TopReturns == pc = "returned" /\ stack # <<>> /\ Len(stack') < Len(stack)

\* an operand of the handler on top of the stack has failed
OperandFailed ==
    \/ ~ret.ok
    \/ Top.node = "Binary" /\ Top.left # Pending /\ ~Top.left.ok

\* C1: whenever a unary, group or binary handler returns after one of its
\* operands failed, it returns a failure.
C1_FailFast == [][TopReturns /\ OperandFailed => ~ret'.ok]_vars

\* C2: when interpret(ast) returns no value the sink was called exactly
\* once, and when it returns a value the sink was not called at all.
C2_ReportedOnce ==
    pc = "done" =>
        /\ result = None => Len(sink) = 1
        /\ result # None => sink = <<>>

IsNaNValue(v) == v.tag = "Number" /\ IsNaN(v.num)

\* same variant, same payload (a zero is the same number under either sign)
SameValue(a, b) ==
    \/ a = b
    \/ a.tag = "Number" /\ b.tag = "Number" /\ IsZero(a.num) /\ IsZero(b.num)

EqApplied == opnode = "Binary" /\ optok.kind = "EqualEqual"
NeApplied == opnode = "Binary" /\ optok.kind = "BangEqual"

\* C3 as stated: a == b is Boolean(true) exactly when a and b are the same
\* variant with the same payload, and a != b is the opposite Boolean.
C3_SamePayload ==
    /\ EqApplied => opout = Return(Ok(Boolean(SameValue(opa, opb))), <<>>)
    /\ NeApplied => opout = Return(Ok(Boolean(~SameValue(opa, opb))), <<>>)

\* C3 amended: a == b is Boolean(true) exactly when a and b are the same
\* variant with the same payload and are not NaN (a NaN Number equals no
\* value, itself included); a != b is the opposite Boolean.
C3_Equality ==
    /\ EqApplied =>
         opout = Return(Ok(Boolean(SameValue(opa, opb) /\ ~IsNaNValue(opa))),
                        <<>>)
    /\ NeApplied =>
         opout = Return(Ok(Boolean(~(SameValue(opa, opb) /\ ~IsNaNValue(opa)))),
                        <<>>)

C3_Witness ==
    /\ EqApplied
    /\ IsNaNValue(opa)
    /\ opb = opa
    /\ opout = Return(Ok(Boolean(FALSE)), <<>>)

\* C4: + on two Numbers returns their sum, on two Strings the left text
\* followed by the right text, and on any other pair of variants reports a
\* type error at the operator's line and returns no value.
C4_Plus ==
    (opnode = "Binary" /\ optok.kind = "Plus") =>
        CASE opa.tag = "Number" /\ opb.tag = "Number" ->
                opout = Return(Ok(Number(FAdd(opa.num, opb.num))), <<>>)
          [] opa.tag = "String" /\ opb.tag = "String" ->
                /\ opout.diag = <<>>
                /\ opout.res.ok
                /\ opout.res.val.tag = "String"
                /\ Len(opout.res.val.str) = Len(opa.str) + Len(opb.str)
                /\ \A i \in 1..Len(opa.str) : opout.res.val.str[i] = opa.str[i]
                /\ \A i \in 1..Len(opb.str) :
                     opout.res.val.str[Len(opa.str) + i] = opb.str[i]
          [] OTHER -> TypeErrorAt(opout, optok.line)

C4_Witness ==
    /\ opnode = "Binary"
    /\ optok.kind = "Plus"
    /\ opa = String(<<"a">>)
    /\ opb = String(<<"1">>)
    /\ opout = Return(Ok(String(<<"a", "1">>)), <<>>)

\* the result the operator stands for
Corresponding(kind, x, y) ==
    CASE kind = "Star" -> Number(FMul(x, y))
      [] kind = "Slash" -> Number(FDiv(x, y))
      [] kind = "Minus" -> Number(FAdd(x, FMul(FromInt(-1), y)))
      [] kind = "Greater" -> Boolean(~Unordered(x, y) /\ FOrd(x, y) > 0)
      [] kind = "GreaterEqual" -> Boolean(~Unordered(x, y) /\ FOrd(x, y) >= 0)
      [] kind = "Less" -> Boolean(~Unordered(x, y) /\ FOrd(x, y) < 0)
      [] kind = "LessEqual" -> Boolean(~Unordered(x, y) /\ FOrd(x, y) <= 0)

\* C5: *, /, -, >, >=, <, <= on two Numbers return the corresponding Number
\* or Boolean; with an operand that is not a Number they report a type
\* error at the operator's line and return no value.
C5_Math ==
    (opnode = "Binary" /\ optok.kind \in MathKinds) =>
        IF opa.tag = "Number" /\ opb.tag = "Number"
        THEN opout = Return(Ok(Corresponding(optok.kind, opa.num, opb.num)),
                            <<>>)
        ELSE TypeErrorAt(opout, optok.line)

C5_Witness ==
    /\ opnode = "Binary"
    /\ optok.kind = "Less"
    /\ opa = Number(FromInt(1))
    /\ opb = Number(FromInt(2))
    /\ opout = Return(Ok(Boolean(TRUE)), <<>>)

\* C6: ! returns Boolean(not truthiness) for an operand of any variant and
\* reports nothing; unary - returns Number(-n) for a Number n and for any
\* other variant reports a type error at the operator's line and returns
\* no value.
C6_Unary ==
    /\ (opnode = "Unary" /\ optok.kind = "Bang") =>
         opout = Return(Ok(Boolean(opa \in {Nil, Boolean(FALSE)})), <<>>)
    /\ (opnode = "Unary" /\ optok.kind = "Minus") =>
         IF opa.tag = "Number"
         THEN opout = Return(Ok(Number(FMul(FromInt(-1), opa.num))), <<>>)
         ELSE TypeErrorAt(opout, optok.line)

C6_Witness ==
    /\ opnode = "Unary"
    /\ optok.kind = "Minus"
    /\ optok.line = MaxLine
    /\ opa.tag = "String"
    /\ TypeErrorAt(opout, MaxLine)

\* C7: a value is falsy exactly when it is Nil or Boolean(false); every
\* Number, zero included, every String, the empty one included, and
\* Boolean(true) are truthy.
C7_Truthiness ==
    \A v \in {opa, opb} :
        /\ truth(v) <=> ~(v.tag = "Nil" \/ (v.tag = "Boolean" /\ ~v.b))
        /\ v.tag \in {"Number", "String"} => truth(v)

C7_Witness ==
    /\ opnode = "Unary"
    /\ optok.kind = "Bang"
    /\ opa.tag = "Number"
    /\ IsZero(opa.num)
    /\ opb = String(<<>>)
    /\ opout = Return(Ok(Boolean(FALSE)), <<>>)


\* the characters of a text: a CONT byte belongs to the LEAD before it
CharCount(t) == Cardinality({i \in 1..Len(t) : t[i] # CONT})
FirstCharLen(t) == IF t[1] = LEAD THEN 2 ELSE 1
LastCharLen(t) == IF t[Len(t)] = CONT THEN 2 ELSE 1

\* t without its first and its last character
Stripped(t) ==
    IF CharCount(t) < 2 THEN <<>>
    ELSE SubSeq(t, FirstCharLen(t) + 1, Len(t) - LastCharLen(t))

StringLiteral == littok # Pending /\ littok.kind = "String"

\* C8 as stated: for a String token with text t of any length, evaluation
\* yields String(t without its first and its last character).
C8_AnyLength ==
    StringLiteral =>
        litout = Return(Ok(String(Stripped(littok.text))), <<>>)

\* C8 amended: for a String token whose text has at least two characters,
\* the first and the last of them one byte long (as the delimiting quotes
\* are), evaluation yields String(t without its first and last character).
C8_Strips ==
    (/\ StringLiteral
     /\ CharCount(littok.text) >= 2
     /\ FirstCharLen(littok.text) = 1
     /\ LastCharLen(littok.text) = 1) =>
        litout = Return(Ok(String(Stripped(littok.text))), <<>>)

C8_Witness ==
    /\ StringLiteral
    /\ littok.text = <<QUOTE, "a", QUOTE>>
    /\ litout = Return(Ok(String(<<"a">>)), <<>>)


\* both native with the same implementation, or both user-defined with the
\* same body subtree
SameCode(f, g) ==
    \/ /\ f.code.impl = "NativeImpl"
       /\ g.code.impl = "NativeImpl"
       /\ f.code.ptr = g.code.ptr
    \/ /\ f.code.impl = "LoxImpl"
       /\ g.code.impl = "LoxImpl"
       /\ f.code.node.addr = g.code.node.addr

\* C9: two Function values are equal exactly when they have the same code,
\* whatever their params and closure; a native function never equals a
\* user-defined one; the relation is reflexive, symmetric and transitive.
C9_FunctionEquality ==
    \A f \in {fnx, fny, fnz} : \A g \in {fnx, fny, fnz} :
        /\ FunctionEq(f, g) <=> SameCode(f, g)
        /\ f.code.impl # g.code.impl => ~FunctionEq(f, g)
        /\ FunctionEq(f, f)
        /\ FunctionEq(f, g) => FunctionEq(g, f)
        /\ \A h \in {fnx, fny, fnz} :
             FunctionEq(f, g) /\ FunctionEq(g, h) => FunctionEq(f, h)

C9_Witness ==
    /\ fnx.code = LoxImpl(AstNodeRef(1))
    /\ fny.code = fnx.code
    /\ fnx.params # fny.params
    /\ fnx.closure # fny.closure
    /\ FunctionEq(fnx, fny)
    /\ fnz.code = LoxImpl(AstNodeRef(2))
    /\ fnz.params = fnx.params
    /\ fnz.closure = fnx.closure
    /\ ~FunctionEq(fnx, fnz)

\* the display forms of the arguments with one space between neighbours
RECURSIVE Joined(_)
Joined(args) ==
    IF args = <<>> THEN <<>>
    ELSE IF Len(args) = 1 THEN Display(args[1])
    ELSE Display(args[1]) \o <<" ">> \o Joined(Tail(args))

\* the table holds exactly the logging and the clock function, neither with
\* a captured environment; the clock returns a Number
NativeTable ==
    /\ Len(natives) = 2
    /\ natives[1].name = "log"
    /\ natives[2].name = "clock"
    /\ natives[1].fn.code # natives[2].fn.code
    /\ \A i \in 1..2 :
         /\ natives[i].fn.code.impl = "NativeImpl"
         /\ natives[i].fn.closure = None
    /\ (ncall # Pending /\ ncall.ptr = "clock") =>
         nret.ok /\ nret.val.tag = "Number"

LogCalled == ncall # Pending /\ ncall.ptr = "log"

\* C10 as stated: the table holds the two natives; log writes the display
\* forms of its arguments separated by single spaces, then a newline, and
\* returns Nil; clock returns a Number.
C10_SpaceSeparated ==
    /\ NativeTable
    /\ LogCalled =>
         /\ nout = Joined(ncall.args) \o <<"\n">>
         /\ nret = Ok(Nil)

\* C10 amended: as stated, except that log writes a space after every
\* argument, the last one included, so that a non-empty argument list ends
\* in a space and a newline.
C10_SpaceAfterEach ==
    /\ NativeTable
    /\ LogCalled =>
         /\ nout = IF ncall.args = <<>> THEN <<"\n">>
                   ELSE Joined(ncall.args) \o <<" ", "\n">>
         /\ nret = Ok(Nil)

C10_Witness ==
    /\ LogCalled
    /\ ncall.args = <<Number(FromInt(1)), String(<<"a">>)>>
    /\ nout = <<"1", " ", "a", " ", "\n">>
    /\ nret = Ok(Nil)

(***************************************************************************)
(* Rendering                                                               *)
(***************************************************************************)
\* p1 .. pk, each followed by one space, written from the last one back
RECURSIVE EachThenSpace(_, _)
EachThenSpace(params, k) ==
    IF k = 0 THEN <<>>
    ELSE EachThenSpace(params, k - 1) \o params[k].text \o <<" ">>

Rendered == fmtnode # Pending

\* the rules of the rendering, with gap standing between the parenthesis
\* that closes the parameter list of a declaration and the body's brace
RendersByRules(gap) ==
    Rendered =>
        LET n == fmtnode
        IN  /\ n.node = "BinaryExpr" =>
                fmtout = <<"(">> \o n.token.text \o <<" ">> \o Fmt(n.lexpr)
                         \o <<" ">> \o Fmt(n.rexpr) \o <<")">>
            /\ n.node = "UnaryExpr" =>
                fmtout = <<"(">> \o n.token.text \o <<" ">> \o Fmt(n.expr)
                         \o <<")">>
            /\ n.node = "AssignExpr" =>
                fmtout = <<"(">> \o n.variable.text \o <<"=">>
                         \o Fmt(n.expr) \o <<")">>
            /\ n.node = "GroupExpr" =>
                fmtout = <<"(", "g", "r", "o", "u", "p", " ">> \o Fmt(n.expr)
                         \o <<")">>
            /\ n.node \in {"IfStmt", "WhileStmt"} =>
                fmtout # <<>> /\ fmtout[Len(fmtout)] = "\n"
            /\ n.node = "FunDecl" =>
                fmtout = <<"(">> \o n.name.text \o <<" ">>
                         \o EachThenSpace(n.params, Len(n.params))
                         \o <<")">> \o gap \o Fmt(n.block)

\* C11 as stated: every node renders by the rules, and a function
\* declaration renders as (n p1 ... pk ) {b}, with one space between the
\* parenthesis that closes the parameter list and the brace that opens the
\* body.
C11_SpaceBeforeBody == RendersByRules(<<" ">>)

\* C11: every node renders by the rules: binary, unary and assign
\* expressions as (op lhs rhs), (op expr) and (name=expr), groups as
\* (group expr), if and while statements end with a newline, and a function
\* declaration with name n, parameters p1..pk and body b renders as
\* (n p1 ... pk ) followed at once by the rendering of b, whose first
\* character is the opening brace: nothing stands between ) and {.
C11_Rendering == RendersByRules(<<>>)

\* a declaration with two parameters and a body of one statement at least
\* has been rendered
C11_Witness ==
    /\ Rendered
    /\ fmtnode.node = "FunDecl"
    /\ Len(fmtnode.params) = 2
    /\ fmtnode.block.decs # <<>>
    /\ fmtout # Pending

(***************************************************************************)
(* Evaluation order                                                        *)
(***************************************************************************)
\* the handler of a binary node is on top and an operand has just returned:
\* the left one while the node holds no left result, the right one after
InBinary == pc = "returned" /\ stack # <<>> /\ Top.node = "Binary"
LeftReturned == InBinary /\ Top.left = Pending
RightReturned == InBinary /\ Top.left # Pending
Comparing == Top.token.kind \in {"EqualEqual", "BangEqual"}

\* C12: in + and in the arithmetic and comparison operators the left
\* operand is evaluated before the right one, and when the left operand
\* fails the handler returns the failure at once: the right operand is not
\* evaluated and nothing more is reported.  In == and != the right operand
\* is evaluated after the left one whether or not the left one failed.  No
\* binary handler returns before its left operand was evaluated.
C12_EvaluationOrder ==
    [][/\ (LeftReturned /\ ~ret.ok /\ ~Comparing) =>
            /\ stack' = Pop
            /\ pc' = "returned"
            /\ ~ret'.ok
            /\ sink' = sink
       /\ (LeftReturned /\ (ret.ok \/ Comparing)) =>
            /\ stack' = [stack EXCEPT ![Len(stack)].left = ret]
            /\ pc' = "eval"
            /\ sink' = sink
       /\ (InBinary /\ stack' = Pop) =>
            \/ RightReturned
            \/ LeftReturned /\ ~ret.ok /\ ~Comparing
      ]_vars

\* == whose left operand failed: the right operand was evaluated all the
\* same, it failed too, and both diagnostics were reported
C12_Witness ==
    /\ RightReturned
    /\ Top.token.kind = "EqualEqual"
    /\ ~Top.left.ok
    /\ ~ret.ok
    /\ Len(sink) = 2

=============================================================================
